---- MODULE Spec2Model ----
(***************************************************************************)
(* Record reconciliation and search-term synthesis of the Feature Layer    *)
(* Manager (src/main.py): the phone normalizer, the Search_Terms builder,  *)
(* and the create / edit submission paths of the Streamlit pages.          *)
(*                                                                         *)
(* Python strings are sequences of one-character strings, so that          *)
(* stripping, digit filtering, joining and number parsing are computed.    *)
(* Python values are tagged records (None, int, bool, str, float, NaN).    *)
(* A dict is a function whose DOMAIN is its key set.                       *)
(***************************************************************************)
EXTENDS Integers, Sequences, FiniteSets, TLC

VARIABLES
    \* --- normalize_phone applied to typed input (SpecPhone)
    phone_raw,      \* the raw text typed so far
    phone_res,      \* NoCall, or the pair normalize_phone returned for phone_raw
    \* --- build_search_terms applied to an attribute map (SpecTerms)
    st_attrs,       \* the attribute map handed to build_search_terms
    st_dict,        \* the keyword dictionary in the cache
    st_out,         \* NoCall, or the string build_search_terms returned
    \* --- the pages (Spec): st.session_state, the schema cache, the last script run
    page,           \* "view", "create" or "edit"
    selected_record,\* the row picked for editing
    new_address, new_lat, new_lng,          \* address suggestor state, create page
    update_address, update_lat, update_lng, \* address suggestor state, edit page
    schema,         \* the field names get_layer_schema has cached
    last,           \* what the last script run composed, reported and handed to apply_edits
    pushed,         \* NoPush, or what the successful update of the preceding script run sent
    \* --- the field classification applied to a schema (SpecClassify)
    layer_fields,   \* the field names of the schema get_layer_schema returns
    classified,     \* NoCall, or the lists the create page derives from layer_fields
    \* --- the cached keyword dictionary and its rebuilds (SpecDict, SpecCache); the
    \* --- cached value itself is st_dict
    kw_table,       \* the rows the keywords table holds now
    kw_fresh,       \* the cache entry of load_service_keyword_dict has not expired
    builder,        \* the call of load_service_keyword_dict that runs or ran last
    held            \* per session: NoCall, or the dictionary and schema its calls returned

phoneVars == <<phone_raw, phone_res>>
termVars  == <<st_attrs, st_dict, st_out>>
newVars   == <<new_address, new_lat, new_lng>>
updVars   == <<update_address, update_lat, update_lng>>
pageVars  == <<page, selected_record, new_address, new_lat, new_lng,
               update_address, update_lat, update_lng, schema, last, pushed>>
classVars == <<layer_fields, classified>>
cacheVars == <<kw_table, kw_fresh, builder, held>>
vars      == <<phone_raw, phone_res, st_attrs, st_dict, st_out, page, selected_record,
               new_address, new_lat, new_lng, update_address, update_lat, update_lng,
               schema, last, pushed, layer_fields, classified, kw_table, kw_fresh, builder, held>>

NoCall == [t |-> "nocall"]

\* the preceding script run sent no successful update
NoPush == [sent |-> FALSE]

----------------------------------------------------------------------------
(* Python values *)

PNone     == [t |-> "none"]
PNaN      == [t |-> "nan"]                 \* float('nan'), what pandas puts in an empty numeric cell
PInt(n)   == [t |-> "int", n |-> n]
PBool(b)  == [t |-> "bool", b |-> b]
PStr(s)   == [t |-> "str", s |-> s]
PFloat(n) == [t |-> "float", tenths |-> n] \* a float, kept in tenths

EmptyStr == PStr(<<>>)

\* {}
EmptyDict == [k \in {} |-> PNone]

\* dict.get(k) with the default None
Get(d, k) == IF k \in DOMAIN d THEN d[k] ELSE PNone

\* dict.get(k, default)
GetOr(d, k, default) == IF k \in DOMAIN d THEN d[k] ELSE default

\* v == 1
PyEqOne(v) ==
    \/ (v.t = "int" /\ v.n = 1)
    \/ (v.t = "float" /\ v.tenths = 10)
    \/ (v.t = "bool" /\ v.b)

\* bool(v)
Truthy(v) ==
    CASE v.t = "none"  -> FALSE
      [] v.t = "nan"   -> TRUE
      [] v.t = "int"   -> v.n # 0
      [] v.t = "bool"  -> v.b
      [] v.t = "str"   -> v.s # <<>>
      [] v.t = "float" -> v.tenths # 0

DigitChars == <<"0", "1", "2", "3", "4", "5", "6", "7", "8", "9">>

IsDigit(c) == \E i \in 1..10 : DigitChars[i] = c

DigitValue(c) == (CHOOSE i \in 1..10 : DigitChars[i] = c) - 1

IsSpace(c) == c = " "

RECURSIVE NatStr(_)
\* the decimal digits of a natural number
NatStr(n) == IF n < 10 THEN <<DigitChars[n + 1]>>
             ELSE NatStr(n \div 10) \o <<DigitChars[(n % 10) + 1]>>

IntStr(n) == IF n < 0 THEN <<"-">> \o NatStr(0 - n) ELSE NatStr(n)

\* repr of a float kept in tenths: 415 -> "41.5", -20 -> "-2.0"
FloatStr(n) ==
    LET a == IF n < 0 THEN 0 - n ELSE n
    IN  (IF n < 0 THEN <<"-">> ELSE <<>>) \o NatStr(a \div 10) \o <<".">> \o NatStr(a % 10)

\* str(v)
PyStr(v) ==
    CASE v.t = "none"  -> <<"N", "o", "n", "e">>
      [] v.t = "nan"   -> <<"n", "a", "n">>
      [] v.t = "int"   -> IntStr(v.n)
      [] v.t = "bool"  -> IF v.b THEN <<"T", "r", "u", "e">> ELSE <<"F", "a", "l", "s", "e">>
      [] v.t = "str"   -> v.s
      [] v.t = "float" -> FloatStr(v.tenths)

RECURSIVE LStrip(_)
LStrip(s) == IF s # <<>> /\ IsSpace(Head(s)) THEN LStrip(Tail(s)) ELSE s

RECURSIVE RStrip(_)
RStrip(s) == IF s # <<>> /\ IsSpace(s[Len(s)]) THEN RStrip(SubSeq(s, 1, Len(s) - 1)) ELSE s

\* str.strip()
Strip(s) == RStrip(LStrip(s))

AllDigits(s) == \A i \in 1..Len(s) : IsDigit(s[i])

RECURSIVE NatVal(_)
\* the number a digit string denotes
NatVal(s) == IF s = <<>> THEN 0 ELSE NatVal(SubSeq(s, 1, Len(s) - 1)) * 10 + DigitValue(s[Len(s)])

----------------------------------------------------------------------------
(* Fixed field sets *)

binary_fields_list ==
    << "Home_Health_Services", "Adult_Day_Services", "Benefits_Counseling",
       "Elder_Housing_Resources", "Assisted_Living", "Elder_Abuse", "Home_Repair",
       "Immigration_Assistance", "Long_term_Care_Ombudsman", "Long_term_Care_Nursing_Homes",
       "Senior_Exercise_Programs", "Dementia_Support_Programs", "Transportation",
       "Senior_Centers", "Caregiver_Support_Services", "Case_Management", "Congregate_Meals",
       "Financial_Counseling", "Health_Education_Workshops", "Home_Delivered_Meals",
       "Hospice_Care", "Technology_Training", "Cultural_Programming", "Mental_Health",
       "Vaccinations_Screening", "Outreach_and_Advocacy", "Lending_Closet",
       "Independent_Living", "Homemakers_Personal_Support", "Independent_Housing" >>

\* set(binary_fields_list())
binary_fields == {binary_fields_list[i] : i \in 1..Len(binary_fields_list)}

\* sorted(list(binary_fields))
bin_keys ==
    << "Adult_Day_Services", "Assisted_Living", "Benefits_Counseling",
       "Caregiver_Support_Services", "Case_Management", "Congregate_Meals",
       "Cultural_Programming", "Dementia_Support_Programs", "Elder_Abuse",
       "Elder_Housing_Resources", "Financial_Counseling", "Health_Education_Workshops",
       "Home_Delivered_Meals", "Home_Health_Services", "Home_Repair",
       "Homemakers_Personal_Support", "Hospice_Care", "Immigration_Assistance",
       "Independent_Housing", "Independent_Living", "Lending_Closet",
       "Long_term_Care_Nursing_Homes", "Long_term_Care_Ombudsman", "Mental_Health",
       "Outreach_and_Advocacy", "Senior_Centers", "Senior_Exercise_Programs",
       "Technology_Training", "Transportation", "Vaccinations_Screening" >>

----------------------------------------------------------------------------
(* Phone normalizer *)

NoError    == "none"
PhoneError == "Invalid phone number. Enter 10 digits."

\* re.sub(r"\D", "", raw)
DigitsOnly(raw) == SelectSeq(raw, IsDigit)

\* f"{digits[0:3]}-{digits[3:6]}-{digits[6:10]}"
FormatPhone(digits) ==
    SubSeq(digits, 1, 3) \o <<"-">> \o SubSeq(digits, 4, 6) \o <<"-">> \o SubSeq(digits, 7, 10)

\* a normalizer that accepts the first ten of more than ten digits
normalize_phone_AtLeastTen(raw) ==
    IF raw = <<>> THEN [fmt |-> <<>>, err |-> NoError]
    ELSE LET digits == DigitsOnly(raw)
         IN  IF Len(digits) >= 10
             THEN [fmt |-> FormatPhone(digits), err |-> NoError]
             ELSE [fmt |-> raw, err |-> PhoneError]

normalize_phone(raw) ==
    IF raw = <<>> THEN [fmt |-> <<>>, err |-> NoError]
    ELSE LET digits == DigitsOnly(raw)
         IN  IF Len(digits) = 10
             THEN [fmt |-> FormatPhone(digits), err |-> NoError]
             ELSE [fmt |-> raw, err |-> PhoneError]

----------------------------------------------------------------------------
(* Search-term synthesizer *)

\* a test that takes every truthy flag value for "on"
is_on_Truthy(flag_val) == Truthy(flag_val)

\* ArcGIS can store 1/0 as number or string
is_on(flag_val) ==
    \/ PyStr(flag_val) = <<"1">>
    \/ PyEqOne(flag_val)
    \/ flag_val = PBool(TRUE)

\* the loop over ("Agency_Name", "Address")
BaseTokens(attributes) ==
    LET tok(base) == IF Truthy(Get(attributes, base)) THEN <<PyStr(Get(attributes, base))>> ELSE <<>>
    IN  tok("Agency_Name") \o tok("Address")

\* a flag loop that visits the flags in alphabetical order
FlagOrder_Alphabetical == bin_keys

\* the order in which the flag loop visits the service flags
FlagOrder == binary_fields_list

RECURSIVE FlagTokens(_, _, _)
\* the loop over the service flags, from position i on
FlagTokens(attributes, dictionary, i) ==
    IF i > Len(FlagOrder) THEN <<>>
    ELSE LET svc == FlagOrder[i]
             here == IF is_on(Get(attributes, svc)) /\ svc \in DOMAIN dictionary
                     THEN dictionary[svc] ELSE <<>>
         IN  here \o FlagTokens(attributes, dictionary, i + 1)

RECURSIVE DedupeFrom(_, _, _)
\* the seen/deduped loop, from position i on
DedupeFrom(tokens, i, seen) ==
    IF i > Len(tokens) THEN <<>>
    ELSE IF tokens[i] \in seen THEN DedupeFrom(tokens, i + 1, seen)
    ELSE <<tokens[i]>> \o DedupeFrom(tokens, i + 1, seen \cup {tokens[i]})

Dedupe(tokens) == DedupeFrom(tokens, 1, {})

RECURSIVE Join(_, _)
\* sep.join(parts)
Join(sep, parts) ==
    IF parts = <<>> THEN <<>>
    ELSE IF Len(parts) = 1 THEN parts[1]
    ELSE parts[1] \o sep \o Join(sep, Tail(parts))

CommaSpace == <<",", " ">>

build_search_terms(attributes, dictionary) ==
    Join(CommaSpace, Dedupe(BaseTokens(attributes) \o FlagTokens(attributes, dictionary, 1)))

----------------------------------------------------------------------------
(* Text used by the model's inputs *)

S_Acme    == <<"A", "c", "m", "e">>
S_Main    == <<"1", " ", "M", "a", "i", "n", " ", "S", "t">>
S_Oak     == <<"9", " ", "O", "a", "k">>
S_bus     == <<"b", "u", "s">>
S_rides   == <<"r", "i", "d", "e", "s">>
S_nurse   == <<"n", "u", "r", "s", "e">>
S_care    == <<"c", "a", "r", "e">>
S_day     == <<"d", "a", "y">>
S_yes     == <<"y", "e", "s">>
S_one     == <<"1">>
S_zero    == <<"0">>

\* Keyword dictionaries the cache can hold (flag -> ordered phrases)
DictExample == [Transportation |-> <<S_bus, S_rides>>]
DictOverlap == [Home_Health_Services |-> <<S_nurse, S_care>>,
                Adult_Day_Services   |-> <<S_care, S_day>>,
                Transportation       |-> <<S_bus, S_care>>]
DictEmpty   == [Adult_Day_Services |-> <<>>]
Dictionaries == {DictExample, DictOverlap, DictEmpty}

----------------------------------------------------------------------------
(* SpecPhone: normalize_phone on typed input *)

MaxDigits == 11     \* digits typed into the phone box
MaxSeps   == 2      \* non-digit characters typed into the phone box

SepChars == {"-", " ", "("}

\* a phone box that was never submitted, and a synthesizer never called
IdlePhone == phone_raw = <<>> /\ phone_res = NoCall
IdleTerms == st_attrs = EmptyDict /\ st_dict = DictExample /\ st_out = NoCall

\* session state as the script sets it up, logged in, on the table view
IdlePages ==
    /\ page = "view"
    /\ selected_record = EmptyDict
    /\ new_address = EmptyStr /\ new_lat = EmptyStr /\ new_lng = EmptyStr
    /\ update_address = EmptyStr /\ update_lat = EmptyStr /\ update_lng = EmptyStr
    /\ schema = <<>>
    /\ last = [kind |-> "none"]
    /\ pushed = NoPush

\* no schema was classified
IdleClass == layer_fields = <<>> /\ classified = NoCall

\* the browser sessions that run the script
Sessions == {"s1", "s2"}

\* no call of load_service_keyword_dict has run its body
NoBuild == [pc |-> "idle"]

\* what a session holds before it called anything
NothingHeld == [dictionary |-> NoCall, fields |-> NoCall]

\* an empty keywords table, an unexpired cache entry, no session holding a value
IdleCache ==
    /\ kw_table = <<>>
    /\ kw_fresh = TRUE
    /\ builder = NoBuild
    /\ held = [s \in Sessions |-> NothingHeld]

NumDigits(s) == Cardinality({i \in 1..Len(s) : IsDigit(s[i])})

\* the user types the next digit (1, 2, ..., 9, 0, 1, ...)
TypeDigit ==
    /\ NumDigits(phone_raw) < MaxDigits
    /\ phone_raw' = Append(phone_raw, DigitChars[((NumDigits(phone_raw) + 1) % 10) + 1])
    /\ phone_res' = NoCall
    /\ UNCHANGED <<termVars, pageVars, classVars, cacheVars>>

\* the user types a character that is no digit
TypeSep(c) ==
    /\ Len(phone_raw) - NumDigits(phone_raw) < MaxSeps
    /\ phone_raw' = Append(phone_raw, c)
    /\ phone_res' = NoCall
    /\ UNCHANGED <<termVars, pageVars, classVars, cacheVars>>

CallNormalizePhone ==
    /\ phone_res = NoCall
    /\ phone_res' = normalize_phone(phone_raw)
    /\ UNCHANGED <<phone_raw>>
    /\ UNCHANGED <<termVars, pageVars, classVars, cacheVars>>

InitPhone == IdlePhone /\ IdleTerms /\ IdlePages /\ IdleClass /\ IdleCache

NextPhone ==
    \/ TypeDigit
    \/ \E c \in SepChars : TypeSep(c)
    \/ CallNormalizePhone

SpecPhone == InitPhone /\ [][NextPhone]_vars

\* the position in s of its k-th digit
DigitPos(s, k) ==
    CHOOSE p \in 1..Len(s) :
        IsDigit(s[p]) /\ Cardinality({q \in 1..(p - 1) : IsDigit(s[q])}) = k - 1

\* C9: normalize_phone returns ("", no error) for empty input; the ten digits
\* of the input, in their order, as DDD-DDD-DDDD with no error when the input
\* holds exactly ten digits; and the input unchanged with an error for every
\* other non-empty input (0 digits and 11 digits included).
C9_NormalizePhone ==
    phone_res # NoCall =>
        LET n == NumDigits(phone_raw)
            digit(k) == phone_raw[DigitPos(phone_raw, k)]
        IN  /\ phone_raw = <<>> => phone_res = [fmt |-> <<>>, err |-> NoError]
            /\ (phone_raw # <<>> /\ n = 10) =>
                    /\ phone_res.err = NoError
                    /\ Len(phone_res.fmt) = 12
                    /\ \A i \in 1..3 : phone_res.fmt[i] = digit(i)
                    /\ phone_res.fmt[4] = "-"
                    /\ \A i \in 4..6 : phone_res.fmt[i + 1] = digit(i)
                    /\ phone_res.fmt[8] = "-"
                    /\ \A i \in 7..10 : phone_res.fmt[i + 2] = digit(i)
            /\ (phone_raw # <<>> /\ n # 10) =>
                    /\ phone_res.fmt = phone_raw
                    /\ phone_res.err # NoError

\* C9 witness: ten digits typed with two other characters were formatted
C9_Witness ==
    /\ phone_res # NoCall
    /\ NumDigits(phone_raw) = 10
    /\ Len(phone_raw) = 12
    /\ phone_res.fmt # phone_raw
    /\ phone_res.err = NoError

----------------------------------------------------------------------------
(* SpecTerms: build_search_terms on attribute maps *)

\* the encodings a stored or submitted service flag can have
FlagEncodings ==
    { PNone, PNaN, PInt(0), PInt(1), PInt(2), PFloat(10), PBool(TRUE), PBool(FALSE),
      EmptyStr, PStr(S_one), PStr(S_zero), PStr(S_yes), PStr(<<" ", "1">>) }

\* the values SpecTerms gives each attribute (a key can also be missing)
TermValues ==
    [ Agency_Name          |-> {PNone, EmptyStr, PStr(S_Acme), PStr(S_bus)},
      Address              |-> {PNone, PStr(S_Main), PStr(S_Acme)},
      Home_Health_Services |-> {PInt(0), PInt(1), PStr(S_one), PBool(TRUE)},
      Adult_Day_Services   |-> {PInt(0), PInt(1), PStr(S_one), PBool(TRUE)},
      Transportation       |-> FlagEncodings ]

TermKeys == DOMAIN TermValues

\* d without key k
Without(d, k) == [x \in (DOMAIN d) \ {k} |-> d[x]]

\* d[k] = v
With(d, k, v) == (k :> v) @@ d

SetAttribute(k, v) ==
    /\ st_attrs' = With(st_attrs, k, v)
    /\ st_out' = NoCall
    /\ UNCHANGED <<st_dict>>
    /\ UNCHANGED <<phoneVars, pageVars, classVars, cacheVars>>

DelAttribute(k) ==
    /\ k \in DOMAIN st_attrs
    /\ st_attrs' = Without(st_attrs, k)
    /\ st_out' = NoCall
    /\ UNCHANGED <<st_dict>>
    /\ UNCHANGED <<phoneVars, pageVars, classVars, cacheVars>>

\* the cached dictionary expires and is rebuilt from the keywords table
ReloadDictionary(d) ==
    /\ st_dict' = d
    /\ st_out' = NoCall
    /\ UNCHANGED <<st_attrs>>
    /\ UNCHANGED <<phoneVars, pageVars, classVars, cacheVars>>

CallBuildSearchTerms ==
    /\ st_out = NoCall
    /\ st_out' = PStr(build_search_terms(st_attrs, st_dict))
    /\ UNCHANGED <<st_attrs, st_dict>>
    /\ UNCHANGED <<phoneVars, pageVars, classVars, cacheVars>>

InitTerms == IdlePhone /\ IdleTerms /\ IdlePages /\ IdleClass /\ IdleCache

NextTerms ==
    \/ \E k \in TermKeys : \E v \in TermValues[k] : SetAttribute(k, v)
    \/ \E k \in TermKeys : DelAttribute(k)
    \/ \E d \in Dictionaries : ReloadDictionary(d)
    \/ CallBuildSearchTerms

SpecTerms == InitTerms /\ [][NextTerms]_vars

\* the values that count as "on": the number 1 (int or float), "1", True
OnValues == {PInt(1), PFloat(10), PStr(S_one), PBool(TRUE)}

\* the non-empty text of attribute k, as a list of at most one token
NamedToken(attrs, k) ==
    IF k \in DOMAIN attrs /\ attrs[k].t = "str" /\ attrs[k].s # <<>> THEN <<attrs[k].s>> ELSE <<>>

RECURSIVE Flatten(_)
Flatten(lists) == IF lists = <<>> THEN <<>> ELSE Head(lists) \o Flatten(Tail(lists))

\* the phrases of the flags that are on and in the dictionary, flags in declared order
OnPhrases(attrs, dict) ==
    LET on(f) == f \in DOMAIN attrs /\ attrs[f] \in OnValues /\ f \in DOMAIN dict
        flags == SelectSeq(binary_fields_list, on)
    IN  Flatten([i \in 1..Len(flags) |-> dict[flags[i]]])

\* L with every element kept at its first occurrence only
FirstOccurrences(L) ==
    LET keep == {i \in 1..Len(L) : \A j \in 1..(i - 1) : L[j] # L[i]}
        nth(k) == CHOOSE i \in keep : Cardinality({j \in keep : j < i}) = k - 1
    IN  [k \in 1..Cardinality(keep) |-> L[nth(k)]]

RECURSIVE CommaJoined(_)
CommaJoined(L) ==
    IF Len(L) = 0 THEN <<>>
    ELSE IF Len(L) = 1 THEN L[1]
    ELSE CommaJoined(SubSeq(L, 1, Len(L) - 1)) \o <<",", " ">> \o L[Len(L)]

ExpectedTerms(attrs, dict) ==
    CommaJoined(FirstOccurrences(
        NamedToken(attrs, "Agency_Name") \o NamedToken(attrs, "Address") \o OnPhrases(attrs, dict)))

\* C2: build_search_terms returns the ", "-join of the first-occurrence
\* deduplication of: the non-empty Agency_Name, the non-empty Address, then the
\* phrases (in dictionary order) of each flag that is on and in the dictionary,
\* flags taken in the declared order of binary_fields_list.
C2_SearchTermsExact ==
    st_out # NoCall => st_out = PStr(ExpectedTerms(st_attrs, st_dict))

\* C2 witness: two flags that share a phrase are on, declared order differs from
\* alphabetical order, and the shared phrase was emitted once
C2_Witness ==
    /\ st_out = PStr(S_Acme \o <<",", " ">> \o S_nurse \o <<",", " ">> \o S_care \o <<",", " ">> \o S_day)
    /\ st_dict = DictOverlap
    /\ Get(st_attrs, "Home_Health_Services") = PInt(1)
    /\ Get(st_attrs, "Adult_Day_Services") = PInt(1)

\* the attribute map with every "on" flag written as the number 1 and every
\* other flag removed
CanonicalFlags(attrs) ==
    [k \in {x \in DOMAIN attrs : x \in binary_fields => attrs[x] \in OnValues} |->
        IF k \in binary_fields THEN PInt(1) ELSE attrs[k]]

\* C10: a flag is on exactly when it is the number 1, the string "1" or True:
\* the three encodings give the same output, and every other value gives the
\* output of a missing flag.
C10_OnEncodings ==
    st_out # NoCall =>
        /\ st_out = PStr(build_search_terms(CanonicalFlags(st_attrs), st_dict))
        /\ (DOMAIN st_attrs = {"Transportation"} /\ st_dict = DictExample) =>
              st_out = IF st_attrs["Transportation"] \in OnValues
                       THEN PStr(S_bus \o <<",", " ">> \o S_rides) ELSE EmptyStr

\* C10 witness: the flag stored as the string "1" produced its phrases
C10_Witness ==
    /\ st_out = PStr(S_bus \o <<",", " ">> \o S_rides)
    /\ DOMAIN st_attrs = {"Transportation"}
    /\ st_attrs["Transportation"] = PStr(S_one)

----------------------------------------------------------------------------
(* Python number parsing *)

\* s without a leading sign
Unsigned(s) == IF s # <<>> /\ Head(s) \in {"+", "-"} THEN Tail(s) ELSE s

IsNegative(s) == s # <<>> /\ Head(s) = "-"

\* digits with at most one decimal point and at least one digit
IsDecimal(u) ==
    /\ Cardinality({i \in 1..Len(u) : u[i] = "."}) <= 1
    /\ \A i \in 1..Len(u) : IsDigit(u[i]) \/ u[i] = "."
    /\ \E i \in 1..Len(u) : IsDigit(u[i])

\* float(s) does not raise ValueError
PyFloatOk(s) ==
    LET u == Unsigned(Strip(s))
    IN  IsDecimal(u) \/ u = <<"n", "a", "n">>

\* float(s), kept in tenths (digits after the first decimal are dropped)
PyFloat(s) ==
    LET t == Strip(s)
        u == Unsigned(t)
        dot == IF \E i \in 1..Len(u) : u[i] = "." THEN CHOOSE i \in 1..Len(u) : u[i] = "." ELSE Len(u) + 1
        whole == NatVal(SubSeq(u, 1, dot - 1))
        frac  == IF dot + 1 <= Len(u) THEN DigitValue(u[dot + 1]) ELSE 0
        mag   == whole * 10 + frac
    IN  IF u = <<"n", "a", "n">> THEN PNaN
        ELSE PFloat(IF IsNegative(t) THEN 0 - mag ELSE mag)

\* int(raw) does not raise
PyIntOk(raw) ==
    CASE raw.t = "int"   -> TRUE
      [] raw.t = "bool"  -> TRUE
      [] raw.t = "float" -> TRUE
      [] raw.t = "str"   -> LET u == Unsigned(Strip(raw.s)) IN u # <<>> /\ AllDigits(u)
      [] OTHER           -> FALSE

\* int(raw)
PyInt(raw) ==
    CASE raw.t = "int"   -> raw.n
      [] raw.t = "bool"  -> IF raw.b THEN 1 ELSE 0
      [] raw.t = "float" -> IF raw.tenths < 0 THEN 0 - ((0 - raw.tenths) \div 10) ELSE raw.tenths \div 10
      [] raw.t = "str"   -> LET t == Strip(raw.s)
                            IN  IF IsNegative(t) THEN 0 - NatVal(Unsigned(t)) ELSE NatVal(Unsigned(t))

----------------------------------------------------------------------------
(* Classifier *)

exclude == {"ObjectId", "OBJECTID", "GlobalID", "GlobalId", "Shape", "Shape_Area",
            "Shape_Length", "CreationDate", "Creator", "EditDate", "Editor"}

custom == {"Name", "Phone_number", "Address", "Address_w_suit__", "Latitude", "Longitude"}

identity_keys == {"ObjectId", "OBJECTID", "GlobalID", "GlobalId"}

\* a classifier that leaves the custom fields in
editable_field_names_KeepCustom(names) ==
    LET keep(n) == n \notin exclude
    IN  SelectSeq(names, keep)

\* names is the list of field names of the cached schema
editable_field_names(names) ==
    LET keep(n) == n \notin exclude /\ n \notin custom
    IN  SelectSeq(names, keep)

other_schema_fields(names) ==
    LET keep(f) == f \notin binary_fields
    IN  SelectSeq(editable_field_names(names), keep)

\* the set of the elements of a list
Elems(L) == {L[i] : i \in 1..Len(L)}

----------------------------------------------------------------------------
(* SpecClassify: the field classification on schemas of growing length *)

MaxFields == 5      \* fields of the schema that is classified

\* names a schema can hold: system fields, custom fields, service flags, others
FieldPool == {"OBJECTID", "GlobalID", "Name", "Agency_Name", "Address", "Website",
              "Transportation", "Contact_name"}

\* the layer gains a field (field names of a layer are unique)
AddField(n) ==
    /\ Len(layer_fields) < MaxFields
    /\ n \notin Elems(layer_fields)
    /\ layer_fields' = Append(layer_fields, n)
    /\ classified' = NoCall
    /\ UNCHANGED <<phoneVars, termVars, pageVars, cacheVars>>

\* the top of show_create_page / show_edit_page: editable_field_names(), then
\* other_schema_fields
Classify ==
    /\ classified = NoCall
    /\ classified' = [editable |-> editable_field_names(layer_fields),
                      other    |-> other_schema_fields(layer_fields)]
    /\ UNCHANGED <<layer_fields>>
    /\ UNCHANGED <<phoneVars, termVars, pageVars, cacheVars>>

InitClassify == IdlePhone /\ IdleTerms /\ IdlePages /\ IdleClass /\ IdleCache

NextClassify ==
    \/ \E n \in FieldPool : AddField(n)
    \/ Classify

SpecClassify == InitClassify /\ [][NextClassify]_vars

\* the position of n in a list without repetitions
Position(L, n) == CHOOSE i \in 1..Len(L) : L[i] = n

\* sub lists its elements in the order L has them
InOrderOf(sub, L) ==
    /\ Elems(sub) \subseteq Elems(L)
    /\ \A i, j \in 1..Len(sub) : i < j => Position(L, sub[i]) < Position(L, sub[j])

\* the buckets of a schema S that are not 'other': the service flags of S, and
\* the system and custom fields of S
ServiceFlagBucket(S) == {n \in Elems(S) : n \in binary_fields}
ExcludedBucket(S)    == {n \in Elems(S) : n \in exclude \cup custom}

\* C11: for every schema list S the 'other' list is a function of S alone that
\* keeps the order of S; 'other', the service flags of S and the excluded
\* (system plus custom) fields of S partition S, every name of S being in
\* exactly one of them; an empty S gives an empty 'other' list.
C11_ClassifierPartitions ==
    classified # NoCall =>
        LET S     == layer_fields
            other == classified.other
            in(n) == {b \in {"other", "service_flags", "excluded"} :
                          \/ (b = "other" /\ n \in Elems(other))
                          \/ (b = "service_flags" /\ n \in ServiceFlagBucket(S))
                          \/ (b = "excluded" /\ n \in ExcludedBucket(S))}
        IN  /\ classified.other = other_schema_fields(S)
            /\ InOrderOf(other, S)
            /\ InOrderOf(classified.editable, S)
            /\ Len(other) = Cardinality(Elems(other))
            /\ \A n \in Elems(S) : Cardinality(in(n)) = 1
            /\ Elems(other) \cup ServiceFlagBucket(S) \cup ExcludedBucket(S) = Elems(S)
            /\ Elems(classified.editable) = Elems(other) \cup ServiceFlagBucket(S)
            /\ S = <<>> => other = <<>>

\* C11 witness: a schema holding a system field, a custom field, a service flag
\* and two other fields was classified, the other fields in schema order
C11_Witness ==
    /\ layer_fields = <<"Website", "OBJECTID", "Address", "Transportation", "Agency_Name">>
    /\ classified # NoCall
    /\ classified.other = <<"Website", "Agency_Name">>
    /\ classified.editable = <<"Website", "Transportation", "Agency_Name">>

----------------------------------------------------------------------------
(* Composition and submission, create and edit paths *)

\* {k: (v if v != "" else None) for k, v in entry.items()}
Clean(entry) == [k \in DOMAIN entry |-> IF entry[k] = EmptyStr THEN PNone ELSE entry[k]]

\* a write that keeps a Search_Terms value the form already holds
WithSearchTerms_KeepGiven(attributes, dictionary) ==
    IF Truthy(Get(attributes, "Search_Terms")) THEN attributes
    ELSE With(attributes, "Search_Terms", PStr(build_search_terms(attributes, dictionary)))

\* attributes["Search_Terms"] = build_search_terms(attributes)
WithSearchTerms(attributes, dictionary) ==
    With(attributes, "Search_Terms", PStr(build_search_terms(attributes, dictionary)))

\* a submit handler that does not look at the errors
SubmissionBlocked_Never(errors) == FALSE

\* if errors: report them and hand nothing over
SubmissionBlocked(errors) == errors # <<>>

\* the phone error, appended to errors when there is one
PhoneErrors(res) == IF res.err # NoError THEN <<res.err>> ELSE <<>>

NoGeometry == [present |-> FALSE]

\* a geometry with the coordinates exchanged
Geometry_Swapped(lon, lat) == [present |-> TRUE, x |-> lat, y |-> lon, wkid |-> 4326]

\* {"x": lon, "y": lat, "spatialReference": {"wkid": 4326}}
Geometry(lon, lat) == [present |-> TRUE, x |-> lon, y |-> lat, wkid |-> 4326]

\* new_entry of show_create_page: the dedicated inputs, then one input per
\* other schema field, then one selectbox per service flag (later writes win)
CreateEntry(address, lat, lng, others, inp) ==
    LET core == [ Agency_Name      |-> PStr(inp.name),
                  Phone_number     |-> PStr(normalize_phone(inp.phone).fmt),
                  Address          |-> address,
                  Address_w_suit__ |-> PStr(inp.suite),
                  Latitude         |-> lat,
                  Longitude        |-> lng ]
        other == [f \in Elems(others) |-> PStr(inp.other[f])]
        flags == [f \in binary_fields |-> PInt(IF f \in inp.on THEN 1 ELSE 0)]
    IN  flags @@ other @@ core

\* lat/lon of the create path: float(s) if s else None; "raises" when float() raises
CreateCoordinate(s) ==
    IF ~Truthy(s) THEN [raises |-> FALSE, given |-> FALSE]
    ELSE IF ~PyFloatOk(PyStr(s)) THEN [raises |-> TRUE, given |-> FALSE]
    ELSE [raises |-> FALSE, given |-> TRUE, val |-> PyFloat(PyStr(s))]

\* the geometry step of the create path
CreateGeometry(lat_s, lng_s) ==
    LET lat == CreateCoordinate(lat_s)
        lon == CreateCoordinate(lng_s)
    IN  IF lat.raises \/ lon.raises THEN [raises |-> TRUE]
        ELSE [raises |-> FALSE,
              geometry |-> IF lat.given /\ lon.given THEN Geometry(lon.val, lat.val) ELSE NoGeometry]

\* raw not in (None, "")
NotBlank(raw) == raw # PNone /\ raw # EmptyStr

\* the selectbox of one service flag on the edit page cannot be drawn:
\* int(raw) raises, or the default index is no index of [0, 1]
FlagFaults(raw) == NotBlank(raw) /\ (~PyIntOk(raw) \/ PyInt(raw) \notin {0, 1})

\* default = int(raw) if raw not in (None, "") else 0
FlagDefault(raw) == IF NotBlank(raw) THEN PyInt(raw) ELSE 0

\* the edit form cannot be drawn for this record
EditFaults(record) ==
    \E key \in binary_fields : FlagFaults(GetOr(record, key, PInt(0)))

\* what a text input returns: what the user typed into it, else its default
TextInput(typed, key, default) == IF key \in DOMAIN typed THEN PStr(typed[key]) ELSE PStr(default)

\* value or ""
OrEmpty(value) == IF Truthy(value) THEN value ELSE EmptyStr

\* value if value is not None else ""
NoneAsEmpty(value) == IF value # PNone THEN value ELSE EmptyStr

\* the value the edit form gives one stored attribute that is no service flag
EditField(key, value, address, lat, lng, inp) ==
    CASE key \in identity_keys      -> value
      [] key = "Phone_number"       ->
            PStr(normalize_phone(TextInput(inp.typed, key, PyStr(OrEmpty(value))).s).fmt)
      [] key = "Address"            -> address
      [] key = "Address_w_suit__"   -> TextInput(inp.typed, key, PyStr(OrEmpty(value)))
      [] key = "Latitude"           -> lat
      [] key = "Longitude"          -> lng
      [] OTHER                      -> TextInput(inp.typed, key, PyStr(NoneAsEmpty(value)))

\* the errors list of the edit form
EditErrors(record, inp) ==
    IF "Phone_number" \in DOMAIN record
    THEN PhoneErrors(normalize_phone(
             TextInput(inp.typed, "Phone_number", PyStr(OrEmpty(record["Phone_number"]))).s))
    ELSE <<>>

\* edited of show_edit_page: the stored attributes, then the other schema fields
\* the record lacks, then every service flag
EditEntry(record, address, lat, lng, others, inp) ==
    LET stored  == [key \in (DOMAIN record) \ binary_fields |->
                        EditField(key, record[key], address, lat, lng, inp)]
        missing == [f \in Elems(others) \ DOMAIN stored |-> TextInput(inp.typed, f, <<>>)]
        flags   == [key \in binary_fields |->
                        LET default == FlagDefault(GetOr(record, key, PInt(0)))
                        IN  PInt(IF key \in inp.toggled THEN 1 - default ELSE default)]
    IN  flags @@ missing @@ stored

\* lat_str / lng_str
EditCoordString(s) == IF Truthy(s) THEN Strip(PyStr(s)) ELSE <<>>

\* the geometry step of the edit path
EditGeometry(lat_s, lng_s) ==
    LET lat_str == EditCoordString(lat_s)
        lng_str == EditCoordString(lng_s)
    IN  IF lat_str # <<>> /\ lng_str # <<>>
        THEN IF PyFloatOk(lng_str) /\ PyFloatOk(lat_str)
             THEN [raises |-> FALSE, geometry |-> Geometry(PyFloat(lng_str), PyFloat(lat_str))]
             ELSE [raises |-> TRUE]
        ELSE [raises |-> FALSE, geometry |-> NoGeometry]

----------------------------------------------------------------------------
(* Spec: the pages of the app, one action per script run *)

S_Zed     == <<"Z", "e", "d">>
S_old     == <<"o", "l", "d">>
S_x       == <<"x">>
S_abc     == <<"a", "b", "c">>
S_short   == <<"5", "5", "5", "-", "1", "2">>
S_tenraw  == <<"1", "2", "3", "4", "5", "6", "7", "8", "9", "0">>
S_tenfmt  == <<"1", "2", "3", "-", "4", "5", "6", "-", "7", "8", "9", "0">>
S_padded  == <<" ", "x", " ">>

\* field lists the schema cache can hold; the second is the first after a
\* field was added upstream
SchemaBase ==
    << "OBJECTID", "Agency_Name", "Phone_number", "Address", "Address_w_suit__",
       "Latitude", "Longitude", "Website", "Search_Terms" >> \o binary_fields_list
SchemaDrifted == SchemaBase \o << "Contact_name" >>
Schemas == {SchemaBase, SchemaDrifted}

\* the dictionary the cache holds while the pages run
PageDictionary == DictOverlap

\* what the autocomplete offers, each with the location the geocoder gives it
Suggestions ==
    { [text |-> S_Main, lat |-> PFloat(415), lng |-> PFloat(0 - 875)],
      [text |-> S_Oak,  lat |-> PFloat(400), lng |-> PFloat(0 - 882)] }

\* the service flags the user sets or toggles
VariedFlags == {"Home_Health_Services", "Adult_Day_Services", "Transportation"}

\* stored coordinate pairs <<Latitude, Longitude>>; "absent" is a record without the key
Absent == [t |-> "absent"]
StoredCoords ==
    { <<PStr(FloatStr(415)), PStr(FloatStr(0 - 875))>>,
      <<PStr(<<" ">> \o FloatStr(415) \o <<" ">>), PStr(FloatStr(0 - 875))>>,
      <<PFloat(415), PFloat(0 - 875)>>,
      <<PNone, PNone>>,
      <<PNaN, PNaN>>,
      <<EmptyStr, EmptyStr>>,
      <<Absent, Absent>>,
      <<PStr(S_abc), PStr(FloatStr(0 - 875))>>,
      <<PStr(S_abc), EmptyStr>>,
      <<PStr(<<" ">>), PStr(FloatStr(0 - 875))>> }

StoredPhones == {PStr(S_tenfmt), PStr(S_short)}

\* stored values of the Transportation flag
StoredFlags == FlagEncodings \cup {Absent}

\* one row of the table, as pandas hands it over: an empty cell is None in an
\* object column and NaN in a numeric one
TableRow(phone, coords, flag, name) ==
    LET all == [ OBJECTID             |-> PInt(7),
                 Agency_Name          |-> name,
                 Phone_number         |-> phone,
                 Address              |-> PStr(S_Oak),
                 Address_w_suit__     |-> PNone,
                 Latitude             |-> coords[1],
                 Longitude            |-> coords[2],
                 Website              |-> PNone,
                 Search_Terms         |-> PStr(S_old),
                 Home_Health_Services |-> PInt(1),
                 Adult_Day_Services   |-> PStr(S_one),
                 Transportation       |-> flag ]
    IN  [k \in {x \in DOMAIN all : all[x] # Absent} |-> all[k]]

\* the rows the table view can show
TableRows ==
    {TableRow(p, c, PInt(0), PStr(S_Acme)) : p \in StoredPhones, c \in StoredCoords}
    \cup {TableRow(PStr(S_tenfmt), <<EmptyStr, EmptyStr>>, f, PStr(S_Acme)) : f \in StoredFlags}
    \cup {TableRow(PNone, <<PNone, PNone>>, PNone, PNone)}
    \cup {With(TableRow(PStr(S_tenfmt), <<EmptyStr, EmptyStr>>, PInt(0), PStr(S_Acme)),
                "Website", PStr(S_padded))}

NoSubmission == [kind |-> "none"]

\* no report of a submission or deletion is on the screen
Settled == last.kind \in {"none", "render"}

Responses == {"success", "failure", "raised"}

\* what the user enters into the create form before pressing Submit
CreateInputs ==
    [ name  : {<<>>, S_Acme},
      phone : {<<>>, S_tenraw, S_short},
      suite : {<<>>},
      other : { [Agency_Name |-> a, Website |-> <<>>, Search_Terms |-> t, Contact_name |-> c] :
                  a \in {<<>>, S_Zed}, t \in {<<>>, S_old}, c \in {S_x} },
      on    : SUBSET VariedFlags ]

\* what the user changes in the edit form before pressing Push Update
EditInputs ==
    [ typed   : { EmptyDict,
                  [Phone_number |-> S_short],
                  [Agency_Name |-> <<>>],
                  [Search_Terms |-> S_Zed],
                  [Contact_name |-> S_x] },
      toggled : {{}, {"Home_Health_Services"}, {"Transportation"}} ]

NoEdits == [typed |-> EmptyDict, toggled |-> {}]


\* "Edit Selected Entry" on the table view
ViewEdit(row) ==
    /\ page = "view"
    /\ Settled
    /\ update_address' = EmptyStr /\ update_lat' = EmptyStr /\ update_lng' = EmptyStr
    /\ selected_record' = row
    /\ page' = "edit"
    /\ last' = NoSubmission
    /\ UNCHANGED <<newVars, schema>>
    /\ pushed' = NoPush
    /\ UNCHANGED <<phoneVars, termVars, classVars, cacheVars>>

\* "Create New Entry" on the table view
ViewCreate ==
    /\ page = "view"
    /\ Settled
    /\ new_address' = EmptyStr /\ new_lat' = EmptyStr /\ new_lng' = EmptyStr
    /\ selected_record' = EmptyDict
    /\ page' = "create"
    /\ last' = NoSubmission
    /\ UNCHANGED <<updVars, schema>>
    /\ pushed' = NoPush
    /\ UNCHANGED <<phoneVars, termVars, classVars, cacheVars>>

\* "Delete Selected Entry" on the table view
ViewDelete(row) ==
    /\ page = "view"
    /\ Settled
    /\ last' = [kind |-> "delete", path |-> "delete", called |-> TRUE,
                deletes |-> PyStr(Get(row, "OBJECTID"))]
    /\ UNCHANGED <<page, selected_record, newVars, updVars, schema>>
    /\ pushed' = NoPush
    /\ UNCHANGED <<phoneVars, termVars, classVars, cacheVars>>

\* the schema cache expires and the field list is fetched again
RefreshSchema(names) ==
    /\ Settled
    /\ names # schema
    /\ schema' = names
    /\ UNCHANGED <<page, selected_record, newVars, updVars, last>>
    /\ UNCHANGED <<pushed>>
    /\ UNCHANGED <<phoneVars, termVars, classVars, cacheVars>>

\* a suggestion is picked on the create page; the geocoder answers or raises
CreatePick(sug, geocoded) ==
    /\ page = "create"
    /\ Settled
    /\ PStr(sug.text) # new_address
    /\ new_address' = PStr(sug.text)
    /\ IF geocoded
       THEN new_lat' = PStr(PyStr(sug.lat)) /\ new_lng' = PStr(PyStr(sug.lng))
       ELSE UNCHANGED <<new_lat, new_lng>>
    /\ last' = NoSubmission
    /\ UNCHANGED <<page, selected_record, updVars, schema>>
    /\ pushed' = NoPush
    /\ UNCHANGED <<phoneVars, termVars, classVars, cacheVars>>

\* "Submit New Entry"
CreateSubmit(inp, response) ==
    /\ page = "create"
    /\ Settled
    /\ LET others    == other_schema_fields(schema)
           errors    == PhoneErrors(normalize_phone(inp.phone))
           new_entry == CreateEntry(new_address, new_lat, new_lng, others, inp)
           geo       == CreateGeometry(new_lat, new_lng)
           feature   == [attributes |-> WithSearchTerms(Clean(new_entry), st_dict),
                         geometry   |-> geo.geometry]
           run       == [kind |-> "submit", path |-> "create", inp |-> inp, errors |-> errors,
                         lat |-> new_lat, lng |-> new_lng, dictionary |-> st_dict,
                         others |-> others, entry |-> new_entry]
       IN  IF SubmissionBlocked(errors)
           THEN /\ last' = run @@ [outcome |-> "blocked", called |-> FALSE]
                /\ UNCHANGED <<page, newVars>>
           ELSE IF geo.raises
           THEN /\ last' = run @@ [outcome |-> "raised", called |-> FALSE]
                /\ UNCHANGED <<page, newVars>>
           ELSE /\ last' = run @@ [outcome |-> response, called |-> TRUE, feature |-> feature]
                /\ IF response = "success"
                   THEN /\ new_address' = EmptyStr /\ new_lat' = EmptyStr /\ new_lng' = EmptyStr
                        /\ page' = "view"
                   ELSE UNCHANGED <<page, newVars>>
    /\ UNCHANGED <<selected_record, updVars, schema>>
    /\ pushed' = NoPush
    /\ UNCHANGED <<phoneVars, termVars, classVars, cacheVars>>

\* "Back to Table" on the create page
CreateBack ==
    /\ page = "create"
    /\ Settled
    /\ new_address' = EmptyStr /\ new_lat' = EmptyStr /\ new_lng' = EmptyStr
    /\ page' = "view"
    /\ last' = NoSubmission
    /\ UNCHANGED <<selected_record, updVars, schema>>
    /\ pushed' = NoPush
    /\ UNCHANGED <<phoneVars, termVars, classVars, cacheVars>>

\* the top of show_edit_page: the suggestor state is taken from the selected
\* record wherever it is empty
InitAddress == IF ~Truthy(update_address)
               THEN GetOr(selected_record, "Address", EmptyStr) ELSE update_address
InitLat     == IF ~Truthy(update_lat)
               THEN PStr(PyStr(GetOr(selected_record, "Latitude", EmptyStr))) ELSE update_lat
InitLng     == IF ~Truthy(update_lng)
               THEN PStr(PyStr(GetOr(selected_record, "Longitude", EmptyStr))) ELSE update_lng

\* the edit page is drawn with no button pressed
EditRender ==
    /\ page = "edit"
    /\ Settled
    /\ update_address' = InitAddress /\ update_lat' = InitLat /\ update_lng' = InitLng
    /\ last' = IF EditFaults(selected_record)
               THEN [kind |-> "render", path |-> "edit", fault |-> TRUE]
               ELSE [kind |-> "render", path |-> "edit", fault |-> FALSE,
                     others |-> other_schema_fields(schema),
                     entry |-> EditEntry(selected_record, InitAddress, InitLat, InitLng,
                                         other_schema_fields(schema), NoEdits)]
    /\ UNCHANGED <<page, selected_record, newVars, schema>>
    /\ pushed' = NoPush
    /\ UNCHANGED <<phoneVars, termVars, classVars, cacheVars>>

\* a suggestion is picked on the edit page; the geocoder answers or raises
EditPick(sug, geocoded) ==
    /\ page = "edit"
    /\ Settled
    /\ PStr(sug.text) # InitAddress
    /\ update_address' = PStr(sug.text)
    /\ IF geocoded
       THEN update_lat' = PStr(PyStr(sug.lat)) /\ update_lng' = PStr(PyStr(sug.lng))
       ELSE update_lat' = InitLat /\ update_lng' = InitLng
    /\ last' = NoSubmission
    /\ UNCHANGED <<page, selected_record, newVars, schema>>
    /\ pushed' = NoPush
    /\ UNCHANGED <<phoneVars, termVars, classVars, cacheVars>>

\* the address and both coordinates are those of a suggestion that was picked
\* and geocoded
Supplied(address, lat, lng) ==
    \E sug \in Suggestions :
        /\ address = PStr(sug.text)
        /\ lat = PStr(PyStr(sug.lat))
        /\ lng = PStr(PyStr(sug.lng))

\* "Push Update"
EditSubmit(inp, response) ==
    /\ page = "edit"
    /\ Settled
    /\ ~EditFaults(selected_record)
    /\ LET others  == other_schema_fields(schema)
           errors  == EditErrors(selected_record, inp)
           edited  == EditEntry(selected_record, InitAddress, InitLat, InitLng, others, inp)
           geo     == EditGeometry(InitLat, InitLng)
           feature == [attributes |-> WithSearchTerms(Clean(edited), st_dict),
                       geometry   |-> geo.geometry]
           run     == [kind |-> "submit", path |-> "edit", inp |-> inp, errors |-> errors,
                       lat |-> InitLat, lng |-> InitLng, dictionary |-> st_dict,
                       others |-> others, entry |-> edited, after |-> pushed]
       IN  IF SubmissionBlocked(errors)
           THEN /\ last' = run @@ [outcome |-> "blocked", called |-> FALSE]
                /\ update_address' = InitAddress /\ update_lat' = InitLat /\ update_lng' = InitLng
                /\ pushed' = NoPush
           ELSE IF geo.raises
           THEN /\ last' = run @@ [outcome |-> "raised", called |-> FALSE]
                /\ update_address' = InitAddress /\ update_lat' = InitLat /\ update_lng' = InitLng
                /\ pushed' = NoPush
           ELSE /\ last' = run @@ [outcome |-> response, called |-> TRUE, feature |-> feature]
                /\ IF response = "success"
                   THEN /\ update_address' = EmptyStr /\ update_lat' = EmptyStr /\ update_lng' = EmptyStr
                        /\ pushed' = [sent |-> TRUE, address |-> InitAddress, lat |-> InitLat,
                                      lng |-> InitLng, geometry |-> geo.geometry,
                                      supplied |-> Supplied(InitAddress, InitLat, InitLng)]
                   ELSE /\ update_address' = InitAddress /\ update_lat' = InitLat /\ update_lng' = InitLng
                        /\ pushed' = NoPush
    /\ UNCHANGED <<page, selected_record, newVars, schema>>
    /\ UNCHANGED <<phoneVars, termVars, classVars, cacheVars>>

\* "Back to Table" on the edit page (the button is below the form)
EditBack ==
    /\ page = "edit"
    /\ Settled
    /\ ~EditFaults(selected_record)
    /\ update_address' = EmptyStr /\ update_lat' = EmptyStr /\ update_lng' = EmptyStr
    /\ page' = "view"
    /\ last' = NoSubmission
    /\ UNCHANGED <<selected_record, newVars, schema>>
    /\ pushed' = NoPush
    /\ UNCHANGED <<phoneVars, termVars, classVars, cacheVars>>

\* the next script run starts: what the last run reported leaves the screen
NextRun ==
    /\ ~Settled
    /\ last' = NoSubmission
    /\ UNCHANGED <<page, selected_record, newVars, updVars, schema>>
    /\ UNCHANGED <<pushed>>
    /\ UNCHANGED <<phoneVars, termVars, classVars, cacheVars>>

Init ==
    /\ IdlePhone
    /\ IdleClass
    /\ IdleCache
    /\ st_attrs = EmptyDict /\ st_out = NoCall
    /\ st_dict = PageDictionary
    /\ page = "view"
    /\ selected_record = EmptyDict
    /\ new_address = EmptyStr /\ new_lat = EmptyStr /\ new_lng = EmptyStr
    /\ update_address = EmptyStr /\ update_lat = EmptyStr /\ update_lng = EmptyStr
    /\ schema \in Schemas
    /\ last = NoSubmission
    /\ pushed = NoPush

Next ==
    \/ \E row \in TableRows : ViewEdit(row)
    \/ ViewCreate
    \/ \E row \in TableRows : ViewDelete(row)
    \/ \E names \in Schemas : RefreshSchema(names)
    \/ NextRun
    \/ \E sug \in Suggestions, geocoded \in BOOLEAN : CreatePick(sug, geocoded)
    \/ \E inp \in CreateInputs, response \in Responses : CreateSubmit(inp, response)
    \/ CreateBack
    \/ EditRender
    \/ \E sug \in Suggestions, geocoded \in BOOLEAN : EditPick(sug, geocoded)
    \/ \E inp \in EditInputs, response \in Responses : EditSubmit(inp, response)
    \/ EditBack

Spec == Init /\ [][Next]_vars

----------------------------------------------------------------------------
(* Claims about the create and edit submission paths *)

\* the last run was a create or edit submission
Submitted == last.kind = "submit"

\* the last run handed a feature to apply_edits(adds=...) or apply_edits(updates=...)
Called == last.kind = "submit" /\ last.called

\* C1: no attribute of a feature handed to apply_edits by the create or edit
\* path is the empty string, the derived Search_Terms included.
C1_NoEmptyStringSent ==
    Called => \A k \in DOMAIN last.feature.attributes : last.feature.attributes[k] # EmptyStr

\* C3: on every write the transmitted Search_Terms is the synthesis of the
\* attribute set transmitted in that write; a stored or typed Search_Terms is
\* overwritten, never merged.
C3_SearchTermsRecomputed ==
    Called =>
        /\ "Search_Terms" \in DOMAIN last.feature.attributes
        /\ last.feature.attributes["Search_Terms"]
              = PStr(ExpectedTerms(last.feature.attributes, last.dictionary))

\* C3 witness: an update of a record that stores Search_Terms "old", with other
\* text typed into the Search_Terms box, was sent with the synthesized terms
C3_Witness ==
    /\ Called
    /\ last.path = "edit"
    /\ Get(selected_record, "Search_Terms") = PStr(S_old)
    /\ last.inp.typed = [Search_Terms |-> S_Zed]
    /\ last.entry["Search_Terms"] = PStr(S_Zed)
    /\ last.feature.attributes["Search_Terms"] \notin {PStr(S_Zed), PStr(S_old), EmptyStr}

\* C4: a submission whose phone value has a validation error reports it and
\* calls apply_edits not at all; apply_edits gets the fully composed record
\* with Search_Terms synthesized, or nothing.
C4_PhoneErrorBlocks ==
    Submitted =>
        /\ last.errors # <<>> => (~last.called /\ last.outcome = "blocked")
        /\ last.called =>
              /\ last.errors = <<>>
              /\ DOMAIN last.feature.attributes = DOMAIN last.entry \cup {"Search_Terms"}
              /\ last.feature.attributes["Search_Terms"].t = "str"

\* C4 witness: an update of a record whose stored phone is "555-12" was blocked
C4_Witness ==
    /\ Submitted
    /\ last.path = "edit"
    /\ Get(selected_record, "Phone_number") = PStr(S_short)
    /\ last.inp.typed = EmptyDict
    /\ last.errors = <<PhoneError>>
    /\ ~last.called

\* a coordinate string that holds text and is no number
Malformed(s) == Strip(PyStr(s)) # <<>> /\ ~PyFloatOk(PyStr(s))

\* C5: a submission with a non-empty coordinate string that is no number fails
\* with a reported error and makes no apply_edits call.
C5_MalformedCoordinateFails ==
    (Submitted /\ (Malformed(last.lat) \/ Malformed(last.lng))) =>
        (~last.called /\ last.outcome \in {"blocked", "raised"})

\* C6: a feature handed to apply_edits carries a geometry exactly when both
\* coordinate strings of the submission parse as numbers; then y is the parsed
\* latitude and x the parsed longitude.
C6_GeometryIffBothParse ==
    Called =>
        LET both == PyFloatOk(PyStr(last.lat)) /\ PyFloatOk(PyStr(last.lng))
        IN  /\ last.feature.geometry.present <=> both
            /\ both => /\ last.feature.geometry.y = PyFloat(PyStr(last.lat))
                       /\ last.feature.geometry.x = PyFloat(PyStr(last.lng))

\* C6 witness: an update with a geocoded suggestion pending carried its point
C6_Witness ==
    /\ Called
    /\ last.path = "edit"
    /\ last.lat = PStr(<<"4", "1", ".", "5">>)
    /\ last.lng = PStr(<<"-", "8", "7", ".", "5">>)
    /\ last.feature.geometry = [present |-> TRUE, x |-> PFloat(0 - 875), y |-> PFloat(415), wkid |-> 4326]

\* a stored flag value that is unset or no number
UnsetOrNonNumeric(record, f) ==
    \/ f \notin DOMAIN record
    \/ record[f] \in {PNone, EmptyStr}
    \/ (record[f].t = "str" /\ ~PyIntOk(record[f]))

\* C7: after composition every service flag is in the composed map with value
\* 0 or 1; on the edit path an unset or non-numeric stored flag becomes 0 and
\* composition completes without a fault.
C7_FlagsPresentZeroOne ==
    /\ (last.kind = "render" /\ \A f \in binary_fields :
                                   UnsetOrNonNumeric(selected_record, f)
                                   \/ Get(selected_record, f) \in {PInt(0), PInt(1), PStr(S_one), PStr(S_zero)})
          => ~last.fault
    /\ ((last.kind = "render" /\ ~last.fault) \/ Submitted) =>
          \A f \in binary_fields :
              /\ f \in DOMAIN last.entry
              /\ last.entry[f] \in {PInt(0), PInt(1)}
              /\ (last.kind = "render" /\ UnsetOrNonNumeric(selected_record, f))
                    => last.entry[f] = PInt(0)

\* the record the edit path composes from a stored record with nothing pending
\* and nothing typed
EditComposed(record, others) ==
    Clean(EditEntry(record,
                    GetOr(record, "Address", EmptyStr),
                    PStr(PyStr(GetOr(record, "Latitude", EmptyStr))),
                    PStr(PyStr(GetOr(record, "Longitude", EmptyStr))),
                    others, NoEdits))

\* C8: for every stored record the edit path composes a record holding every
\* other-field and service flag of the schema, with "" / 0 where the stored
\* record lacks it, and composing again from the composed record changes nothing.
C8_ComposeCompleteIdempotent ==
    last.kind = "render" =>
        /\ ~last.fault
        /\ \A f \in Elems(last.others) \cup binary_fields :
              /\ f \in DOMAIN last.entry
              /\ f \notin DOMAIN selected_record =>
                    last.entry[f] = IF f \in binary_fields THEN PInt(0) ELSE EmptyStr
        /\ LET once == Clean(last.entry)
           IN  /\ ~EditFaults(once)
               /\ EditComposed(once, last.others) = once

----------------------------------------------------------------------------
(* The keyword dictionary: load_service_keyword_dict *)

\* a Service_Field value that is a non-empty string; it names a field and is
\* only ever used whole, as the key of the mapping
PName(k) == [t |-> "name", k |-> k]

\* bool(svc)
NameGiven(svc) == IF svc.t = "name" THEN TRUE ELSE Truthy(svc)

RECURSIVE SplitComma(_)
\* keys.split(",")
SplitComma(s) ==
    IF \A i \in 1..Len(s) : s[i] # ","
    THEN <<s>>
    ELSE LET p == CHOOSE i \in 1..Len(s) : s[i] = "," /\ \A j \in 1..(i - 1) : s[j] # ","
         IN  <<SubSeq(s, 1, p - 1)>> \o SplitComma(SubSeq(s, p + 1, Len(s)))

\* a list of the pieces as they stand
terms_Untrimmed(keys) == SplitComma(keys)

\* [t.strip() for t in keys.split(",") if t.strip()]
terms(keys) ==
    LET pieces   == SplitComma(keys)
        stripped == [i \in 1..Len(pieces) |-> Strip(pieces[i])]
        full(t)  == t # <<>>
    IN  SelectSeq(stripped, full)

\* one pass of the loop over data["features"]; attrs is feat["attributes"]
BuildRow(mapping, attrs) ==
    LET svc  == Get(attrs, "Service_Field")
        keys == OrEmpty(GetOr(attrs, "Keywords", EmptyStr))
    IN  IF ~NameGiven(svc) THEN mapping
        ELSE With(mapping, svc.k, terms(keys.s))

RECURSIVE BuildFrom(_, _, _)
\* the loop from its i-th pass on
BuildFrom(mapping, features, i) ==
    IF i > Len(features) THEN mapping
    ELSE BuildFrom(BuildRow(mapping, features[i]), features, i + 1)

\* the mapping load_service_keyword_dict returns when the table query
\* answers with these features
load_service_keyword_dict(features) == BuildFrom(EmptyDict, features, 1)

----------------------------------------------------------------------------
(* SpecDict: load_service_keyword_dict on keyword tables of growing length *)

MaxRows == 3        \* rows of the keywords table

K_bus    == <<" ", "b", "u", "s", " ", ",", " ", "r", "i", "d", "e", "s", ",", ",", " ">>
K_care   == <<"c", "a", "r", "e", ",", "d", "a", "y">>
K_commas == <<",", " ", ",">>

\* rows the keywords table can hold: padded and empty pieces, a null blob, a
\* blob of separators only, a row without Keywords, and rows whose flag name
\* is null, empty or not there
RowPool ==
    { [Service_Field |-> PName("Transportation"),       Keywords |-> PStr(K_bus)],
      [Service_Field |-> PName("Transportation"),       Keywords |-> PNone],
      [Service_Field |-> PName("Adult_Day_Services"),   Keywords |-> PStr(K_care)],
      [Service_Field |-> PName("Adult_Day_Services"),   Keywords |-> PStr(K_commas)],
      [Service_Field |-> PName("Home_Health_Services")],
      [Service_Field |-> PNone,                         Keywords |-> PStr(K_care)],
      [Service_Field |-> EmptyStr,                      Keywords |-> PStr(K_bus)],
      [Keywords |-> PStr(K_care)] }

\* a row is added to the keywords table
AddRow(r) ==
    /\ Len(kw_table) < MaxRows
    /\ kw_table' = Append(kw_table, r)
    /\ UNCHANGED <<kw_fresh, builder, held>>
    /\ UNCHANGED <<phoneVars, termVars, pageVars, classVars>>

\* the hour of the cache entry is over
Expire ==
    /\ kw_fresh
    /\ builder.pc # "loop"
    /\ kw_fresh' = FALSE
    /\ UNCHANGED <<kw_table, builder, held>>
    /\ UNCHANGED <<phoneVars, termVars, pageVars, classVars>>

\* a call of load_service_keyword_dict() that finds no entry: the body runs on
\* the rows of the table, its result is cached and returned
LoadDictionary(s) ==
    /\ ~kw_fresh
    /\ builder.pc # "loop"
    /\ LET mapping == load_service_keyword_dict(kw_table)
       IN  /\ builder' = [pc |-> "done", session |-> s, rows |-> kw_table, mapping |-> mapping]
           /\ st_dict' = mapping
           /\ held' = [held EXCEPT ![s].dictionary = mapping]
    /\ kw_fresh' = TRUE
    /\ UNCHANGED <<kw_table, st_attrs, st_out>>
    /\ UNCHANGED <<phoneVars, pageVars, classVars>>

\* the process has started: nothing is cached
InitDict ==
    /\ IdlePhone /\ IdlePages /\ IdleClass
    /\ st_attrs = EmptyDict /\ st_out = NoCall
    /\ st_dict = EmptyDict
    /\ kw_table = <<>>
    /\ kw_fresh = FALSE
    /\ builder = NoBuild
    /\ held = [s \in Sessions |-> NothingHeld]

NextDict ==
    \/ \E r \in RowPool : AddRow(r)
    \/ Expire
    \/ LoadDictionary("s1")

SpecDict == InitDict /\ [][NextDict]_vars

\* the row names a flag
HasFlag(attrs) == "Service_Field" \in DOMAIN attrs /\ attrs["Service_Field"].t = "name"

\* the phrase blob of a row; a null blob and a row without one hold no text
Blob(attrs) ==
    IF "Keywords" \in DOMAIN attrs /\ attrs["Keywords"].t = "str" THEN attrs["Keywords"].s ELSE <<>>

\* the places where the pieces of s begin and end
Cuts(s) == {0, Len(s) + 1} \cup {i \in 1..Len(s) : s[i] = ","}

NextCut(s, c) == CHOOSE d \in Cuts(s) : d > c /\ \A e \in Cuts(s) : e > c => d <= e

\* the piece of s after the cut c, trimmed
Piece(s, c) == Strip(SubSeq(s, c + 1, NextCut(s, c) - 1))

\* the cuts of s that a non-empty piece follows
KeptCuts(s) == {c \in Cuts(s) \ {Len(s) + 1} : Piece(s, c) # <<>>}

\* L lists the trimmed non-empty pieces of s, in their order
IsPhraseList(L, s) ==
    /\ Len(L) = Cardinality(KeptCuts(s))
    /\ \A c \in KeptCuts(s) : L[Cardinality({d \in KeptCuts(s) : d <= c})] = Piece(s, c)

\* the rows of a table that name a flag which no later row names again
Assigning(rows) ==
    {i \in 1..Len(rows) :
        /\ HasFlag(rows[i])
        /\ \A j \in (i + 1)..Len(rows) :
              HasFlag(rows[j]) => rows[j]["Service_Field"] # rows[i]["Service_Field"]}

\* wherever load_service_keyword_dict ran: its keys are the flag names of the
\* rows that have one, and each key holds the phrase list of the row that
\* assigned it
BuiltAsSpecified ==
    builder.pc = "done" =>
        LET rows == builder.rows
            m    == builder.mapping
        IN  /\ DOMAIN m = {rows[i]["Service_Field"].k : i \in {j \in 1..Len(rows) : HasFlag(rows[j])}}
            /\ \A i \in Assigning(rows) :
                  LET k == rows[i]["Service_Field"].k
                  IN  /\ IsPhraseList(m[k], Blob(rows[i]))
                      /\ \A p \in 1..Len(m[k]) : m[k][p] # <<>> /\ Strip(m[k][p]) = m[k][p]
                      /\ Get(rows[i], "Keywords") = PNone => m[k] = <<>>

\* a rebuild from the rows the last build had gives the mapping it gave
RebuiltAlike ==
    (builder.pc = "done" /\ builder'.pc = "done" /\ builder'.rows = builder.rows)
        => builder'.mapping = builder.mapping

\* C13: the dictionary build maps the flag name of each row to the list got by
\* splitting the row's blob on commas, trimming each piece and dropping the
\* empty ones (the last row of a flag assigns its key); rows whose flag name is
\* missing or empty give no key; a null blob gives an empty list; a rebuild
\* from the same rows gives the same mapping.
C13_DictionaryBuild == []BuiltAsSpecified /\ [][RebuiltAlike]_vars

\* C13 witness: the table of one row Transportation / " bus , rides,, " and two
\* rows without a flag name was built into {"Transportation": ["bus", "rides"]}
C13_Witness ==
    /\ builder.pc = "done"
    /\ Len(builder.rows) = 3
    /\ builder.rows[1] = [Service_Field |-> EmptyStr, Keywords |-> PStr(K_bus)]
    /\ builder.rows[2] = [Service_Field |-> PName("Transportation"), Keywords |-> PStr(K_bus)]
    /\ builder.rows[3] = [Keywords |-> PStr(K_care)]
    /\ builder.mapping = DictExample
    /\ st_dict = DictExample


----------------------------------------------------------------------------
(* SpecCache: sessions calling the memoized load_service_keyword_dict and    *)
(* get_layer_schema while entries expire and are rebuilt.  st.cache_data     *)
(* runs the body of a missed call under the lock of the function, stores the *)
(* returned value and hands every caller a copy of the stored value.         *)

\* the rows the keywords table holds at one time or another
KeywordTables ==
    { << [Service_Field |-> PName("Transportation"),     Keywords |-> PStr(K_bus)],
         [Service_Field |-> PName("Adult_Day_Services"), Keywords |-> PStr(K_care)] >>,
      << [Service_Field |-> PName("Transportation"),     Keywords |-> PNone],
         [Service_Field |-> PName("Adult_Day_Services"), Keywords |-> PStr(K_care)],
         [Service_Field |-> PName("Home_Health_Services")] >>,
      << [Service_Field |-> PName("Adult_Day_Services"), Keywords |-> PStr(K_commas)],
         [Service_Field |-> PNone,                       Keywords |-> PStr(K_care)],
         [Service_Field |-> PName("Transportation"),     Keywords |-> PStr(K_bus)] >> }

\* a rebuild that empties and refills the dict it published last
Published_InPlace(value, mapping) == mapping

\* a dictionary that was returned or stored before the running call of
\* load_service_keyword_dict began, seen while that call has filled mapping:
\* the call fills a dict of its own, the mapping of line 96
Published(value, mapping) == value

\* the keywords table is edited
EditTable(T) ==
    /\ T # kw_table
    /\ kw_table' = T
    /\ UNCHANGED <<kw_fresh, builder, held>>
    /\ UNCHANGED <<phoneVars, termVars, pageVars, classVars>>

\* session s calls load_service_keyword_dict() and the entry has not expired
CallHit(s) ==
    /\ kw_fresh
    /\ held' = [held EXCEPT ![s].dictionary = st_dict]
    /\ UNCHANGED <<kw_table, kw_fresh, builder>>
    /\ UNCHANGED <<phoneVars, termVars, pageVars, classVars>>

\* session s calls load_service_keyword_dict(), the entry has expired and no
\* other call runs the body: the table is queried and mapping = {}
CallMiss(s) ==
    /\ ~kw_fresh
    /\ builder.pc # "loop"
    /\ builder' = [pc |-> "loop", session |-> s, rows |-> kw_table, i |-> 0,
                   mapping |-> EmptyDict]
    /\ UNCHANGED <<kw_table, kw_fresh, held>>
    /\ UNCHANGED <<phoneVars, termVars, pageVars, classVars>>

\* one pass of the loop of the running call
LoopPass ==
    /\ builder.pc = "loop"
    /\ builder.i < Len(builder.rows)
    /\ LET mapping == BuildRow(builder.mapping, builder.rows[builder.i + 1])
       IN  /\ builder' = [builder EXCEPT !.i = @ + 1, !.mapping = mapping]
           /\ st_dict' = Published(st_dict, mapping)
           /\ held' = [s \in Sessions |->
                          IF held[s].dictionary = NoCall THEN held[s]
                          ELSE [held[s] EXCEPT !.dictionary = Published(@, mapping)]]
    /\ UNCHANGED <<kw_table, kw_fresh, st_attrs, st_out>>
    /\ UNCHANGED <<phoneVars, pageVars, classVars>>

\* return mapping: the value is stored and handed to the caller
Return ==
    /\ builder.pc = "loop"
    /\ builder.i = Len(builder.rows)
    /\ st_dict' = builder.mapping
    /\ kw_fresh' = TRUE
    /\ held' = [held EXCEPT ![builder.session].dictionary = builder.mapping]
    /\ builder' = [pc |-> "done", session |-> builder.session, rows |-> builder.rows,
                   mapping |-> builder.mapping]
    /\ UNCHANGED <<kw_table, st_attrs, st_out>>
    /\ UNCHANGED <<phoneVars, pageVars, classVars>>

\* session s calls get_layer_schema()
CallSchema(s) ==
    /\ held[s].fields # [names |-> schema]
    /\ held' = [held EXCEPT ![s].fields = [names |-> schema]]
    /\ UNCHANGED <<kw_table, kw_fresh, builder>>
    /\ UNCHANGED <<phoneVars, termVars, pageVars, classVars>>

\* both entries are cached, from the first table and the first schema
InitCache ==
    /\ IdlePhone /\ IdleClass
    /\ st_attrs = EmptyDict /\ st_out = NoCall
    /\ page = "view"
    /\ selected_record = EmptyDict
    /\ new_address = EmptyStr /\ new_lat = EmptyStr /\ new_lng = EmptyStr
    /\ update_address = EmptyStr /\ update_lat = EmptyStr /\ update_lng = EmptyStr
    /\ last = NoSubmission
    /\ pushed = NoPush
    /\ schema = SchemaBase
    /\ kw_table \in KeywordTables
    /\ st_dict = load_service_keyword_dict(kw_table)
    /\ kw_fresh = TRUE
    /\ builder = NoBuild
    /\ held = [s \in Sessions |-> NothingHeld]

NextCache ==
    \/ \E T \in KeywordTables : EditTable(T)
    \/ Expire
    \/ \E s \in Sessions : CallHit(s)
    \/ \E s \in Sessions : CallMiss(s)
    \/ LoopPass
    \/ Return
    \/ \E s \in Sessions : CallSchema(s)
    \/ \E names \in Schemas : RefreshSchema(names)

SpecCache == InitCache /\ [][NextCache]_vars

\* the mappings that hold all rows of one state of the keywords table
WholeMappings == {load_service_keyword_dict(T) : T \in KeywordTables}

\* C12: whatever runs at the same time, an expiry-triggered rebuild included,
\* the dictionary a session holds from a call of load_service_keyword_dict and
\* the dictionary in the cache are each the mapping of all rows of one state of
\* the keywords table, never of some of its rows; the field list a session
\* holds is a whole schema.
C12_ReadersSeeWholeValues ==
    /\ st_dict \in WholeMappings
    /\ \A s \in Sessions :
          /\ held[s].dictionary # NoCall => held[s].dictionary \in WholeMappings
          /\ held[s].fields # NoCall => held[s].fields.names \in Schemas

\* C12 witness: a session holds the previous mapping while the rebuild of the
\* other session has filled in one row of three
C12_Witness ==
    /\ builder.pc = "loop"
    /\ builder.session = "s1"
    /\ builder.i = 1
    /\ Len(builder.rows) = 3
    /\ builder.mapping \notin WholeMappings
    /\ held["s2"].dictionary \in WholeMappings
    /\ held["s2"].dictionary # load_service_keyword_dict(builder.rows)
    /\ held["s2"].fields = [names |-> SchemaDrifted]

\* the stored attributes the edit form gives no treatment of their own
PlainKeys(record) ==
    (DOMAIN record) \ (identity_keys \cup binary_fields
                        \cup {"Phone_number", "Address", "Address_w_suit__", "Latitude", "Longitude"})

\* C14: on the edit path every stored attribute that is no identity field, not
\* the phone, no address or coordinate field and no service flag is composed,
\* when nothing is typed into it, as text without leading or trailing
\* whitespace; a stored None is composed as "" and, when the update is handed
\* over, sent as None (Search_Terms, which is derived, aside).
C14_OtherFieldsTrimmed ==
    ((last.kind = "render" /\ ~last.fault) \/ (Submitted /\ last.path = "edit")) =>
        \A key \in PlainKeys(selected_record) :
            (last.kind = "submit" => key \notin DOMAIN last.inp.typed) =>
                /\ last.entry[key].t = "str"
                /\ Strip(last.entry[key].s) = last.entry[key].s
                /\ selected_record[key] = PNone =>
                      /\ last.entry[key] = EmptyStr
                      /\ (Called /\ key # "Search_Terms") => last.feature.attributes[key] = PNone

\* the fields the create and edit forms give inputs of their own
CustomTreated == {"Name", "Agency_Name", "Phone_number", "Address", "Address_w_suit__",
                  "Latitude", "Longitude"}

\* C15: no field with a dedicated input (the agency name, Phone_number,
\* Address, Address_w_suit__, Latitude, Longitude) is among the 'other' fields
\* of the schema, and the Agency_Name of a create submission is what the
\* dedicated "Name / Agency_Name" input holds.
C15_CustomFieldsNotOther ==
    (Submitted /\ last.path = "create") =>
        /\ Elems(last.others) \cap CustomTreated = {}
        /\ last.entry["Agency_Name"] = PStr(last.inp.name)

\* the selected record stores no value under key: the key is not there or holds None
Unstored(key) == Get(selected_record, key) = PNone

\* the address and coordinates of the last submission are those taken from the
\* selected record, no suggestion having replaced them
NothingPicked ==
    /\ Get(last.entry, "Address") = Get(selected_record, "Address")
    /\ last.lat = PStr(PyStr(GetOr(selected_record, "Latitude", EmptyStr)))
    /\ last.lng = PStr(PyStr(GetOr(selected_record, "Longitude", EmptyStr)))

\* C17: Push Update on a record that stores neither Latitude nor Longitude,
\* with no suggestion picked and a valid phone, hands the update to
\* apply_edits, without geometry; composing it does not fail.
C17_AbsentCoordinatesSubmit ==
    (/\ Submitted /\ last.path = "edit"
     /\ Unstored("Latitude") /\ Unstored("Longitude")
     /\ NothingPicked
     /\ last.errors = <<>>) =>
        /\ last.called
        /\ ~last.feature.geometry.present

\* C16: when the preceding script run was a successful Push Update whose
\* Address, Latitude and Longitude a picked and geocoded suggestion supplied,
\* a Push Update with nothing typed, toggled or picked since composes the same
\* Address, Latitude and Longitude and, handed over, carries the same geometry.
C16_ResubmitSendsSame ==
    (/\ Submitted /\ last.path = "edit"
     /\ last.after.sent /\ last.after.supplied
     /\ last.inp = NoEdits) =>
        /\ last.called
        /\ Get(last.entry, "Address") = last.after.address
        /\ last.lat = last.after.lat
        /\ last.lng = last.after.lng
        /\ last.feature.geometry = last.after.geometry

====
